---- MODULE Spec2Model ----
(***************************************************************************)
(* Expense-Tracker MCP server (src/main.py): the bearer-token middleware,  *)
(* the seven ledger tools and the monthly budget check, over the two       *)
(* Supabase tables "transactions" and "settings".                          *)
(*                                                                         *)
(* Python values are modelled as follows.                                  *)
(*   - a str is a sequence of chunks (<<"Bearer", " ", "t1">>), so that    *)
(*     startswith is a real prefix test;                                   *)
(*   - None is <<>> where the other values are tuples or sequences, and    *)
(*     Some(x) == <<x>> wraps an optional number or header;                *)
(*   - a date 'YYYY-MM-DD' is the integer YYYYMMDD (same order);           *)
(*   - amounts are integers;                                               *)
(*   - a tool's return value or raised error is a record with a "kind".    *)
(***************************************************************************)
EXTENDS Integers, Sequences, FiniteSets, TLC

VARIABLES
    transactions,  \* table "transactions": a set of rows
    nextId,        \* the store's serial for transactions.id
    settings,      \* table "settings": a set of rows (user_id, total_budget)
    pc,            \* per in-flight request: "idle" or "bound" (middleware passed)
    hdr,           \* per in-flight request: its Authorization header
    state,         \* per in-flight request: fastmcp_context state "user_id"
    last,          \* the last completed tool call: tool, user, args, result
    lastReq        \* the request the last completed call belonged to

vars == <<transactions, nextId, settings, pc, hdr, state, last, lastReq>>

store == <<transactions, nextId, settings>>

----------------------------------------------------------------------------
(* Bounds of the model *)

\* transactions ever inserted (the serial stops there)
MaxRows == 2

\* requests in flight at once in the interleaved specification
MaxRequests == 2

\* transactions ever inserted in the interleaved specification
MaxConcRows == 1

----------------------------------------------------------------------------
(* Python values *)

None == <<>>

Some(x) == <<x>>

\* str.startswith
startswith(s, prefix) ==
    /\ Len(s) >= Len(prefix)
    /\ SubSeq(s, 1, Len(prefix)) = prefix

\* the literal "Bearer " of line 27
BearerPrefix == <<"Bearer", " ">>

\* datetime.now(): the server's clock, one day of February 2024
Today == 20240215

\* strftime('%Y-%m-01'): the first day of the month of date d
start_of_month(d) == (d \div 100) * 100 + 1

\* the 500 of line 69
WarnThreshold == 500

\* f"{x:.2f}" of an integer x: its digits, then ".00"
Fmt2f(x) == <<x, 0>>

abs(x) == IF x < 0 THEN -x ELSE x

RECURSIVE SumAmounts(_)
\* sum(item['amount'] for item in rows)
SumAmounts(rows) ==
    IF rows = {} THEN 0
    ELSE LET r == CHOOSE x \in rows : TRUE
         IN  r.amount + SumAmounts(rows \ {r})

----------------------------------------------------------------------------
(* Results *)

Text(t) == [kind |-> "text", text |-> t]

\* ToolError of line 28
Unauthorized == [kind |-> "ToolError", text |-> "Unauthorized: Please provide a Bearer Token in your config."]

\* an exception of the Supabase client, which no tool catches
StoreError == [kind |-> "error", text |-> "store call failed"]

NotFoundOrUnauthorized == Text("Transaction not found or unauthorized.")

NoBudgetMsg == [kind |-> "none"]

----------------------------------------------------------------------------
(* Auth *)

\* hashlib.sha256(auth_header.encode()).hexdigest()[:16]. The digest is not
\* computed: it is a value tagged with its input, so distinct headers get
\* distinct identifiers (no collision among the headers of the model).
generate_user_id(auth_header) == <<"sha256_16", auth_header>>

\* line 27 negated: the header passes the middleware
HeaderAccepted(h) ==
    /\ h # None
    /\ h[1] # <<>>
    /\ startswith(h[1], BearerPrefix)

\* on_call_tool with the scheme test dropped: any non-empty header passes
on_call_tool_any_scheme(h) ==
    IF h = None \/ h[1] = <<>>
    THEN [raised |-> TRUE, user_id |-> None]
    ELSE [raised |-> FALSE, user_id |-> generate_user_id(h[1])]

\* lines 24-31: the header is refused, or the caller's identifier is derived
on_call_tool(h) ==
    IF ~HeaderAccepted(h)
    THEN [raised |-> TRUE, user_id |-> None]
    ELSE [raised |-> FALSE, user_id |-> generate_user_id(h[1])]

\* set_state on a process-wide variable instead of the request's context
set_state_global(r, user_id) == [q \in DOMAIN state |-> user_id]

\* context.fastmcp_context.set_state("user_id", user_id): the context of request r
set_state(r, user_id) == [state EXCEPT ![r] = user_id]

\* ctx.get_state("user_id") in the tool called by request r
get_state(r) == state[r]

----------------------------------------------------------------------------
(* The store: what the Supabase calls of the tools do to the tables *)

\* .insert(data): the store assigns the id
Insert(tbl, id, data) ==
    tbl \cup {[id |-> id, user_id |-> data.user_id, amount |-> data.amount,
               type |-> data.type, category |-> data.category,
               subcategory |-> data.subcategory, note |-> data.note,
               date |-> data.date]}

\* OwnRow with the user_id filter dropped
OwnRowAnyTenant(tbl, t_id, user_id) == {t \in tbl : t.id = t_id}

\* .eq("id", t_id).eq("user_id", user_id)
OwnRow(tbl, t_id, user_id) == {t \in tbl : t.id = t_id /\ t.user_id = user_id}

\* Upsert as a plain insert
PlainInsert(tbl, data) == tbl \cup {data}

\* .upsert(data) on "settings", whose key is user_id
Upsert(tbl, data) == {s \in tbl : s.user_id # data.user_id} \cup {data}

\* InWindow with .gt / .lt in place of .gte / .lte
InWindowStrict(t, start_date, end_date) ==
    /\ start_date # None => t.date > start_date[1]
    /\ end_date # None => t.date < end_date[1]

\* .gte("date", start) / .lte("date", end), each applied only when given
InWindow(t, start_date, end_date) ==
    /\ start_date # None => t.date >= start_date[1]
    /\ end_date # None => t.date <= end_date[1]

\* .order("date", desc=True): every order of the rows the store may return
OrderedByDateDesc(rows) ==
    LET n == Cardinality(rows)
    IN  {s \in [1..n -> rows] :
            /\ \A i, j \in 1..n : i # j => s[i] # s[j]
            /\ \A i, j \in 1..n : i < j => s[i].date >= s[j].date}

Min(a, b) == IF a < b THEN a ELSE b

----------------------------------------------------------------------------
(* Budget check *)

\* budget_message with the threshold itself excluded from the warning
budget_message_strict(remaining) ==
    IF 0 <= remaining /\ remaining < WarnThreshold
    THEN [kind |-> "warning", left |-> Fmt2f(remaining)]
    ELSE IF remaining < 0
    THEN [kind |-> "exceeded", by |-> Fmt2f(abs(remaining))]
    ELSE NoBudgetMsg

\* lines 69-73
budget_message(remaining) ==
    IF 0 <= remaining /\ remaining <= WarnThreshold
    THEN [kind |-> "warning", left |-> Fmt2f(remaining)]
    ELSE IF remaining < 0
    THEN [kind |-> "exceeded", by |-> Fmt2f(abs(remaining))]
    ELSE NoBudgetMsg

\* lines 48-73, on the tables as they are when it runs. fail names the store
\* call that raises ("settings", "spend"), if any.
get_budget_status(settingsTbl, txTbl, user_id, new_expense, fail) ==
    LET res == {s \in settingsTbl : s.user_id = user_id}
        budget == (CHOOSE s \in res : TRUE).total_budget
        spend_res == {t \in txTbl : /\ t.user_id = user_id
                                    /\ t.type = "expense"
                                    /\ t.date >= start_of_month(Today)}
        spent == SumAmounts(spend_res)
        remaining == budget - spent - new_expense
    IN  IF fail = "settings" THEN [raised |-> TRUE, msg |-> NoBudgetMsg]
        ELSE IF res = {} THEN [raised |-> FALSE, msg |-> NoBudgetMsg]
        ELSE IF fail = "spend" THEN [raised |-> TRUE, msg |-> NoBudgetMsg]
        ELSE [raised |-> FALSE, msg |-> budget_message(remaining)]

----------------------------------------------------------------------------
(* Tools: the body of each, run for the caller user_id *)

\* f"Logged {t_type}: {amount}." and, when there is one, the budget message
Logged(t_type, amount, budget_msg) ==
    [kind |-> "logged", type |-> t_type, amount |-> amount, budget |-> budget_msg]

Completed(tool, user_id, args, result) ==
    last' = [tool |-> tool, user |-> user_id, args |-> args, result |-> result]

\* lines 76-79
ping(user_id) ==
    /\ Completed("ping", user_id, [none |-> TRUE],
                 [kind |-> "pong", for |-> user_id])
    /\ UNCHANGED store

\* lines 81-116. fail: "insert", "settings", "spend" or "none"
add_transaction(user_id, amount, category, date, is_credit, fail) ==
    LET d == IF date = None THEN Today ELSE date[1]
        t_type == IF is_credit THEN "credit" ELSE "expense"
        data == [user_id |-> user_id, amount |-> amount, type |-> t_type,
                 category |-> category, subcategory |-> "", note |-> "",
                 date |-> d]
        inserted == Insert(transactions, nextId, data)
        budget == get_budget_status(settings, inserted, user_id, amount, fail)
        args == [amount |-> amount, category |-> category, date |-> date,
                 is_credit |-> is_credit, fail |-> fail]
    IN  /\ IF fail = "insert"
           THEN /\ UNCHANGED store
                /\ Completed("add_transaction", user_id, args, StoreError)
           ELSE /\ transactions' = inserted
                /\ nextId' = nextId + 1
                /\ UNCHANGED settings
                /\ Completed("add_transaction", user_id, args,
                      IF is_credit THEN Logged(t_type, amount, NoBudgetMsg)
                      ELSE IF budget.raised THEN StoreError
                      ELSE Logged(t_type, amount, budget.msg))

\* lines 118-140
list_expenses(user_id, start_date, end_date, category, limit, fail) ==
    LET rows == {t \in transactions :
                    /\ t.user_id = user_id
                    /\ InWindow(t, start_date, end_date)
                    /\ category # None => t.category = category[1]}
        args == [start_date |-> start_date, end_date |-> end_date,
                 category |-> category, limit |-> limit, fail |-> fail]
    IN  /\ UNCHANGED store
        /\ IF fail THEN Completed("list_expenses", user_id, args, StoreError)
           ELSE \E s \in OrderedByDateDesc(rows) :
                  LET data == SubSeq(s, 1, Min(limit, Len(s)))
                  IN  Completed("list_expenses", user_id, args,
                        IF data # <<>> THEN [kind |-> "rows", rows |-> data]
                        ELSE Text("No transactions found."))

\* lines 155-174, on a table
Summary(tbl, user_id, start_date, end_date) ==
    LET rows == {t \in tbl : t.user_id = user_id /\ InWindow(t, start_date, end_date)}
        expenses == SumAmounts({t \in rows : t.type = "expense"})
        credits == SumAmounts({t \in rows : t.type = "credit"})
    IN  [kind |-> "summary", TotalExpense |-> expenses, TotalCredit |-> credits,
         NetBalance |-> credits - expenses]

\* lines 142-174
get_summary(user_id, start_date, end_date, fail) ==
    LET args == [start_date |-> start_date, end_date |-> end_date, fail |-> fail]
    IN  /\ UNCHANGED store
        /\ Completed("get_summary", user_id, args,
              IF fail THEN StoreError
              ELSE Summary(transactions, user_id, start_date, end_date))

\* lines 176-208
search_transactions(user_id, date, amount, category, fail) ==
    LET data == {t \in transactions : /\ t.user_id = user_id
                                      /\ t.date = date
                                      /\ t.amount = amount
                                      /\ t.category = category}
        results == {[id |-> t.id, date |-> t.date, amount |-> t.amount,
                     category |-> t.category, subcategory |-> t.subcategory,
                     note |-> t.note] : t \in data}
        args == [date |-> date, amount |-> amount, category |-> category,
                 fail |-> fail]
    IN  /\ UNCHANGED store
        /\ Completed("search_transactions", user_id, args,
              IF fail THEN StoreError
              ELSE IF data = {} THEN Text("No matching transactions found.")
              ELSE [kind |-> "lines", lines |-> results])

\* lines 210-231
update_transaction_by_id(user_id, t_id, new_amount, fail) ==
    LET hit == OwnRow(transactions, t_id, user_id)
        args == [t_id |-> t_id, new_amount |-> new_amount, fail |-> fail]
    IN  /\ UNCHANGED <<nextId, settings>>
        /\ IF new_amount = None
           THEN /\ UNCHANGED transactions
                /\ Completed("update_transaction_by_id", user_id, args,
                             Text("Nothing to update."))
           ELSE IF fail
           THEN /\ UNCHANGED transactions
                /\ Completed("update_transaction_by_id", user_id, args, StoreError)
           ELSE /\ transactions' = (transactions \ hit) \cup
                       {[t EXCEPT !.amount = new_amount[1]] : t \in hit}
                /\ Completed("update_transaction_by_id", user_id, args,
                      IF hit # {}
                      THEN [kind |-> "updated", id |-> t_id, amount |-> new_amount[1]]
                      ELSE NotFoundOrUnauthorized)

\* delete_transaction_by_id telling a foreign row from a missing one
delete_transaction_telling(user_id, t_id, fail) ==
    LET hit == OwnRow(transactions, t_id, user_id)
        args == [t_id |-> t_id, fail |-> fail]
    IN  /\ UNCHANGED <<nextId, settings>>
        /\ IF fail
           THEN /\ UNCHANGED transactions
                /\ Completed("delete_transaction_by_id", user_id, args, StoreError)
           ELSE /\ transactions' = transactions \ hit
                /\ Completed("delete_transaction_by_id", user_id, args,
                      IF hit # {}
                      THEN [kind |-> "deleted", id |-> t_id]
                      ELSE IF \E t \in transactions : t.id = t_id
                      THEN Text("Transaction belongs to another user.")
                      ELSE Text("Transaction not found."))

\* lines 233-248
delete_transaction_by_id(user_id, t_id, fail) ==
    LET hit == OwnRow(transactions, t_id, user_id)
        args == [t_id |-> t_id, fail |-> fail]
    IN  /\ UNCHANGED <<nextId, settings>>
        /\ IF fail
           THEN /\ UNCHANGED transactions
                /\ Completed("delete_transaction_by_id", user_id, args, StoreError)
           ELSE /\ transactions' = transactions \ hit
                /\ Completed("delete_transaction_by_id", user_id, args,
                      IF hit # {}
                      THEN [kind |-> "deleted", id |-> t_id]
                      ELSE NotFoundOrUnauthorized)

\* lines 250-257
set_budget(user_id, amount, fail) ==
    LET data == [user_id |-> user_id, total_budget |-> amount]
        args == [amount |-> amount, fail |-> fail]
    IN  /\ UNCHANGED <<transactions, nextId>>
        /\ IF fail
           THEN /\ UNCHANGED settings
                /\ Completed("set_budget", user_id, args, StoreError)
           ELSE /\ settings' = Upsert(settings, data)
                /\ Completed("set_budget", user_id, args,
                             [kind |-> "budget_updated", amount |-> amount])

----------------------------------------------------------------------------
(* Requests *)

Requests == 1..MaxRequests

ToolNames == {"ping", "add_transaction", "list_expenses", "get_summary",
              "search_transactions", "update_transaction_by_id",
              "delete_transaction_by_id", "set_budget"}

BearerT1 == Some(<<"Bearer", " ", "t1">>)

BearerT2 == Some(<<"Bearer", " ", "t2">>)

\* headers the middleware refuses: none, empty, another scheme, no space
\* after the scheme, the scheme in lower case. A header that is "Bearer "
\* and nothing else is not among them: an HTTP header value arrives with its
\* trailing whitespace stripped, as "Bearer".
RefusedHeaders == {None, Some(<<>>), Some(<<"Basic", " ", "t1">>),
                   Some(<<"Bearer">>), Some(<<"bearer", " ", "t1">>)}

\* the first day of the current month, and the last day of the month before
FirstOfMonth == start_of_month(Today)

LastMonth == FirstOfMonth - 70

\* The arguments the tool calls of a specification are drawn from. These are
\* the smallest: one tenant pair, one value per argument.
LeanInputs ==
    [headers      |-> {BearerT1, BearerT2, None},
     refused     |-> {"ping"},
     amounts     |-> {300},
     new_amounts |-> {Some(300)},
     categories  |-> {"Food"},
     dates       |-> {None},
     windows     |-> {<<None, None>>},
     filters     |-> {None},
     limits      |-> {50},
     ids         |-> 1..MaxRows,    \* the ids the store assigns, and t_id
     budgets     |-> {1000},
     search_dates |-> {Today},
     credits     |-> {FALSE},
     add_fails   |-> {"none"},
     read_fails  |-> {FALSE},
     fails       |-> {FALSE}]

\* isolation, update and delete: two amounts (one not positive), an absent
\* new amount, failing store calls
LedgerInputs ==
    [LeanInputs EXCEPT !.amounts = {-5, 300},
                       !.new_amounts = {None, Some(-5)},
                       !.credits = BOOLEAN,
                       !.fails = BOOLEAN]

\* summaries: two dates, three windows
SummaryInputs ==
    [LeanInputs EXCEPT !.dates = {None, Some(LastMonth)},
                       !.credits = BOOLEAN,
                       !.windows = {<<None, None>>, <<Some(FirstOfMonth), None>>,
                                    <<None, Some(LastMonth)>>}]

\* budgets: two budgets, two dates, every store call of add_transaction failing
BudgetInputs ==
    [LeanInputs EXCEPT !.dates = {None, Some(LastMonth)},
                       !.credits = BOOLEAN,
                       !.budgets = {500, 1000},
                       !.add_fails = {"none", "insert", "settings", "spend"}]

\* requests in flight together: every header, the writing tools refused
ConcInputs ==
    [LeanInputs EXCEPT !.headers = {BearerT1, BearerT2} \cup RefusedHeaders,
                       !.refused = {"add_transaction", "delete_transaction_by_id",
                                    "set_budget"},
                       !.ids = 1..MaxConcRows]

Init ==
    /\ transactions = {}
    /\ nextId = 1
    /\ settings = {}
    /\ pc = [r \in Requests |-> "idle"]
    /\ hdr = [r \in Requests |-> None]
    /\ state = [r \in Requests |-> None]
    /\ last = [tool |-> "ping", user |-> None, args |-> [none |-> TRUE],
               result |-> [kind |-> "none"]]
    /\ lastReq = [req |-> 0, header |-> None]

(* A tool call is taken either whole, in one step (request 0: the middleware
   and then the body, nothing in between), or as a request r in Requests in
   two steps, the middleware (Arrive) and later the body, with the steps of
   other requests in between. *)

\* line 28: the middleware raises, the tool is not called
Refuse(r, h, tool) ==
    /\ Completed(tool, None, [none |-> TRUE], Unauthorized)
    /\ lastReq' = [req |-> r, header |-> h]
    /\ UNCHANGED <<store, pc, hdr, state>>

\* lines 31-36: the identifier is put in the request's context, then call_next
Bind(r, h) ==
    /\ pc' = [pc EXCEPT ![r] = "bound"]
    /\ hdr' = [hdr EXCEPT ![r] = h]
    /\ state' = set_state(r, on_call_tool(h).user_id)
    /\ UNCHANGED <<store, last, lastReq>>

\* AuthMiddleware.on_call_tool for a request with header h calling tool
Arrive(R, I) ==
    \E r \in R, h \in I.headers, tool \in I.refused :
        /\ r # 0 => pc[r] = "idle"
        /\ IF on_call_tool(h).raised THEN Refuse(r, h, tool)
           ELSE r # 0 /\ Bind(r, h)

\* the body of a tool runs for request r, whose header is h
Served(r, h) ==
    /\ lastReq' = [req |-> r, header |-> h]
    /\ IF r = 0
       THEN /\ ~on_call_tool(h).raised
            /\ UNCHANGED <<pc, hdr, state>>
       ELSE /\ pc[r] = "bound"
            /\ h = hdr[r]
            /\ pc' = [pc EXCEPT ![r] = "idle"]
            /\ hdr' = [hdr EXCEPT ![r] = None]
            /\ state' = [state EXCEPT ![r] = None]

\* what ctx.get_state("user_id") gives the body
Caller(r, h) == IF r = 0 THEN on_call_tool(h).user_id ELSE get_state(r)

Ping(R, I) ==
    \E r \in R, h \in I.headers :
        Served(r, h) /\ ping(Caller(r, h))

AddTransaction(R, I) ==
    \E r \in R, h \in I.headers, amount \in I.amounts,
       category \in I.categories, date \in I.dates, is_credit \in I.credits,
       fail \in I.add_fails :
        /\ nextId \in I.ids
        /\ Served(r, h)
        /\ add_transaction(Caller(r, h), amount, category, date, is_credit, fail)

ListExpenses(R, I) ==
    \E r \in R, h \in I.headers, w \in I.windows, category \in I.filters,
       limit \in I.limits, fail \in I.read_fails :
        /\ Served(r, h)
        /\ list_expenses(Caller(r, h), w[1], w[2], category, limit, fail)

GetSummary(R, I) ==
    \E r \in R, h \in I.headers, w \in I.windows, fail \in I.read_fails :
        /\ Served(r, h)
        /\ get_summary(Caller(r, h), w[1], w[2], fail)

SearchTransactions(R, I) ==
    \E r \in R, h \in I.headers, date \in I.search_dates,
       amount \in I.amounts, category \in I.categories, fail \in I.read_fails :
        /\ Served(r, h)
        /\ search_transactions(Caller(r, h), date, amount, category, fail)

UpdateTransactionById(R, I) ==
    \E r \in R, h \in I.headers, t_id \in I.ids,
       new_amount \in I.new_amounts, fail \in I.fails :
        /\ Served(r, h)
        /\ update_transaction_by_id(Caller(r, h), t_id, new_amount, fail)

DeleteTransactionById(R, I) ==
    \E r \in R, h \in I.headers, t_id \in I.ids, fail \in I.fails :
        /\ Served(r, h)
        /\ delete_transaction_by_id(Caller(r, h), t_id, fail)

SetBudget(R, I) ==
    \E r \in R, h \in I.headers, amount \in I.budgets, fail \in I.fails :
        /\ Served(r, h)
        /\ set_budget(Caller(r, h), amount, fail)

Serve(R, I) ==
    \/ Arrive(R, I)
    \/ Ping(R, I)
    \/ AddTransaction(R, I)
    \/ ListExpenses(R, I)
    \/ GetSummary(R, I)
    \/ SearchTransactions(R, I)
    \/ UpdateTransactionById(R, I)
    \/ DeleteTransactionById(R, I)
    \/ SetBudget(R, I)

(* Whole calls, one after the other *)
Next == Serve({0}, LedgerInputs)

Spec == Init /\ [][Next]_vars

NextSummary == Serve({0}, SummaryInputs)

SpecSummary == Init /\ [][NextSummary]_vars

NextBudget == Serve({0}, BudgetInputs)

SpecBudget == Init /\ [][NextBudget]_vars

(* Requests in flight together *)
NextConc == Serve(Requests, ConcInputs)

SpecConc == Init /\ [][NextConc]_vars

(* The budget check alone, on tables the tools can have produced: any budget
   of tenant t1, any subset of five stored rows, any proposed expense. *)
ClassifyBudgets == {0, 500, 1000, 1001}

ClassifyExpenses == {-1, 0, 1, 100, 101, 500, 600}

Row(id, h, amount, type, date) ==
    [id |-> id, user_id |-> generate_user_id(h[1]), amount |-> amount,
     type |-> type, category |-> "Food", subcategory |-> "", note |-> "",
     date |-> date]

ClassifyRows ==
    {Row(1, BearerT1, 400, "expense", Today),
     Row(2, BearerT1, 1, "expense", FirstOfMonth),
     Row(3, BearerT1, 500, "expense", LastMonth),
     Row(4, BearerT1, 50, "credit", Today),
     Row(5, BearerT2, 70, "expense", Today)}

InitClassify ==
    /\ transactions \in SUBSET ClassifyRows
    /\ nextId = 6
    /\ settings \in {{}} \cup
          {{[user_id |-> generate_user_id(BearerT1[1]), total_budget |-> b]} :
              b \in ClassifyBudgets}
    /\ pc = [r \in Requests |-> "idle"]
    /\ hdr = [r \in Requests |-> None]
    /\ state = [r \in Requests |-> None]
    /\ last = [tool |-> "ping", user |-> None, args |-> [none |-> TRUE],
               result |-> [kind |-> "none"]]
    /\ lastReq = [req |-> 0, header |-> None]

\* get_budget_status called for the tenant of header h
GetBudgetStatus ==
    \E h \in {BearerT1, BearerT2}, new_expense \in ClassifyExpenses :
        LET user_id == generate_user_id(h[1])
            status == get_budget_status(settings, transactions, user_id,
                                        new_expense, "none")
        IN  /\ Completed("get_budget_status", user_id,
                         [new_expense |-> new_expense], status.msg)
            /\ lastReq' = [req |-> 0, header |-> h]
            /\ UNCHANGED <<store, pc, hdr, state>>

SpecClassify == InitClassify /\ [][GetBudgetStatus]_vars

----------------------------------------------------------------------------
(* Properties. In every specification each step that completes a call sets
   last and lastReq to describe it, so in an action formula last' is the
   call the step made, the unprimed tables are those it found and the primed
   ones those it left. *)

Mutations == {"updated", "deleted"}

\* the rows of tbl that user_id owns
RowsOf(tbl, user_id) == {t \in tbl : t.user_id = user_id}

\* the step's call is update_transaction_by_id or delete_transaction_by_id
\* aimed at t_id
Targets(t_id) ==
    /\ last'.tool \in {"update_transaction_by_id", "delete_transaction_by_id"}
    /\ last'.args.t_id = t_id

IsolationStep ==
    LET A == last'.user
        res == last'.result
    IN  /\ \A t \in transactions :
              t.user_id # A =>
                  /\ t \in transactions'
                  /\ Targets(t.id) => res.kind \notin Mutations
        /\ \A s \in settings : s.user_id # A => s \in settings'
        /\ res.kind = "lines" =>
              \A l \in res.lines :
                  \E t \in RowsOf(transactions, A) : t.id = l.id
        /\ res.kind = "rows" =>
              \A i \in 1..Len(res.rows) : res.rows[i] \in RowsOf(transactions, A)
        /\ res.kind = "summary" =>
              res = Summary(RowsOf(transactions, A), A,
                            last'.args.start_date, last'.args.end_date)

\* C1: whatever a caller A does, the rows of every other tenant stay as they
\* were; update and delete aimed at another tenant's row never report
\* success; search and list return only rows A owns; the summary is the one
\* of A's rows alone.
C1_TenantIsolation == [][IsolationStep]_vars

\* A's update (with an amount, the store answering) was refused on a row that
\* exists and belongs to another tenant
C1_Witness ==
    /\ last.tool = "update_transaction_by_id"
    /\ last.args.new_amount # None
    /\ last.result = NotFoundOrUnauthorized
    /\ \E t \in transactions : t.id = last.args.t_id /\ t.user_id # last.user

\* what update and delete answer when they hit no row: told by the
\* arguments alone
MissAnswer(tool, args) ==
    IF tool = "update_transaction_by_id" /\ args.new_amount = None
    THEN Text("Nothing to update.")
    ELSE IF args.fail THEN StoreError
    ELSE NotFoundOrUnauthorized

NonDistinguishStep ==
    \A t_id \in 1..MaxRows :
        (/\ Targets(t_id)
         /\ RowsOf(transactions, last'.user) \cap {t \in transactions : t.id = t_id} = {})
        => /\ last'.result = MissAnswer(last'.tool, last'.args)
           /\ transactions' = transactions

\* C5: update and delete give one and the same result, a function of the
\* arguments only, whether the id is missing or is another tenant's row.
C5_NotFoundIndistinguishable == [][NonDistinguishStep]_vars

\* a delete answered "not found or unauthorized" on another tenant's row
C5_Witness ==
    /\ last.tool = "delete_transaction_by_id"
    /\ last.result = NotFoundOrUnauthorized
    /\ \E t \in transactions : t.id = last.args.t_id /\ t.user_id # last.user

\* C9: every stored transaction has a positive amount.
C9_AmountsPositive == \A t \in transactions : t.amount > 0

\* d is a date of the window (start, end), either end open when None
Inside(d, w) ==
    /\ w[1] # None => w[1][1] <= d
    /\ w[2] # None => d <= w[2][1]

\* the step logged an expense
LoggedExpense ==
    /\ last'.tool = "add_transaction"
    /\ ~last'.args.is_credit
    /\ last'.result.kind = "logged"

SummaryAfterAddStep ==
    LoggedExpense =>
        LET A == last'.user
            a == last'.args.amount
            d == IF last'.args.date = None THEN Today ELSE last'.args.date[1]
        IN  \A w \in SummaryInputs.windows :
                Inside(d, w) =>
                    LET before == Summary(transactions, A, w[1], w[2])
                        after == Summary(transactions', A, w[1], w[2])
                    IN  /\ after.TotalExpense = before.TotalExpense + a
                        /\ after.TotalCredit = before.TotalCredit
                        /\ after.NetBalance = before.NetBalance - a

\* C8: for every window holding the date of an expense just added, the
\* summary after the add has Total Expense greater by the amount, the same
\* Total Credit, and Net Balance lower by the amount.
C8_SummaryReflectsAdd == [][SummaryAfterAddStep]_vars

\* a dated expense was added to a ledger that held a row of the caller
C8_Witness ==
    /\ last.tool = "add_transaction"
    /\ ~last.args.is_credit
    /\ last.args.date = Some(LastMonth)
    /\ last.result.kind = "logged"
    /\ Cardinality(RowsOf(transactions, last.user)) >= 2

\* the caller's expenses of the current month
MonthExpenses(tbl, user_id) ==
    {t \in RowsOf(tbl, user_id) :
        t.type = "expense" /\ t.date \div 100 = Today \div 100}

\* Exceeded / Warning / nothing, as the specification words it
Classification(remaining) ==
    CASE remaining < 0 -> [kind |-> "exceeded", by |-> Fmt2f(-remaining)]
      [] remaining >= 0 /\ remaining <= 500 ->
             [kind |-> "warning", left |-> Fmt2f(remaining)]
      [] OTHER -> NoBudgetMsg

\* C3: the budget message of an expense added in the current month is the
\* classification of the budget minus the month's expenses, the new one
\* among them once.
C3_NewExpenseCountedOnce ==
    (/\ last.tool = "add_transaction"
     /\ ~last.args.is_credit
     /\ (last.args.date = None
         \/ last.args.date[1] \div 100 = Today \div 100)
     /\ last.result.kind = "logged"
     /\ RowsOf(settings, last.user) # {})
    => \A s \in RowsOf(settings, last.user) :
          last.result.budget =
              Classification(s.total_budget
                             - SumAmounts(MonthExpenses(transactions, last.user)))

\* C4: when the budget check of add_transaction fails after the insert, the
\* call still answers "Logged expense" with no budget message, and the row
\* is stored.
C4_EvaluationFailureSwallowed ==
    (/\ last.tool = "add_transaction"
     /\ ~last.args.is_credit
     /\ \/ last.args.fail = "settings"
        \/ last.args.fail = "spend" /\ RowsOf(settings, last.user) # {})
    => /\ last.result = Logged("expense", last.args.amount, NoBudgetMsg)
       /\ \E t \in RowsOf(transactions, last.user) :
             t.id = nextId - 1 /\ t.amount = last.args.amount

BudgetStep ==
    /\ \A u \in {s.user_id : s \in settings'} :
          Cardinality(RowsOf(settings', u)) = 1
    /\ IF last'.tool = "set_budget" /\ last'.result.kind = "budget_updated"
       THEN /\ RowsOf(settings', last'.user) =
                  {[user_id |-> last'.user, total_budget |-> last'.args.amount]}
            /\ \A s \in settings : s.user_id # last'.user => s \in settings'
            /\ \A s \in settings' : s.user_id # last'.user => s \in settings
       ELSE settings' = settings

\* C7: the settings table never holds two rows of one tenant; a set_budget
\* call leaves the caller's row with the amount of that call and the other
\* tenants' rows as they were; no other call changes the table.
C7_BudgetUpsert == [][BudgetStep]_vars

\* both tenants hold a budget, the two differ, and the last call set one
C7_Witness ==
    /\ last.tool = "set_budget"
    /\ last.result.kind = "budget_updated"
    /\ Cardinality(settings) = 2
    /\ \E s \in settings : s.total_budget # last.args.amount

\* C6: get_budget_status answers Exceeded by -r when r < 0, Warning with r
\* when 0 <= r <= 500, nothing when r > 500, for r = budget - month spend -
\* proposed expense; and nothing when the tenant has no budget.
C6_Classification ==
    last.tool = "get_budget_status" =>
        LET own == RowsOf(settings, last.user)
            s == SumAmounts({t \in RowsOf(transactions, last.user) :
                                t.type = "expense" /\ t.date >= FirstOfMonth})
        IN  IF own = {} THEN last.result = NoBudgetMsg
            ELSE \A b \in own :
                    last.result =
                        Classification(b.total_budget - s - last.args.new_expense)

\* budget 1000, month spend 400, proposed 100: remaining exactly 500, Warning
C6_Witness ==
    /\ last.tool = "get_budget_status"
    /\ last.args.new_expense = 100
    /\ last.result = [kind |-> "warning", left |-> Fmt2f(500)]
    /\ \E b \in settings : b.total_budget = 1000

\* a header of the form "Bearer <token>"
BearerForm(h) ==
    /\ h # None
    /\ Len(h[1]) = 3
    /\ h[1][1] = "Bearer"
    /\ h[1][2] = " "

\* the step is the middleware letting request r through
Binds(r) == pc[r] = "idle" /\ pc'[r] = "bound"

UnauthorizedStep ==
    /\ \A r \in Requests : Binds(r) => BearerForm(hdr'[r])
    /\ \A r \in Requests : pc'[r] = "bound" => BearerForm(hdr'[r])
    /\ (lastReq' # lastReq \/ last' # last) =>
          (~BearerForm(lastReq'.header) =>
              /\ last'.result = Unauthorized
              /\ last'.user = None
              /\ store' = store
              /\ pc' = pc)

\* C2: a call whose header is absent or not "Bearer <token>" ends with the
\* Unauthorized error, never reaches a tool body (no request is let through
\* with such a header), and leaves both tables as they were.
C2_UnauthorizedNoEffect == [][UnauthorizedStep]_vars

\* a delete sent with a Basic header was refused, the ledger holding a row
C2_Witness ==
    /\ last.tool = "delete_transaction_by_id"
    /\ last.result = Unauthorized
    /\ lastReq.header = Some(<<"Basic", " ", "t1">>)
    /\ transactions # {}

\* the step is the tool body of request r
Runs(r) == pc[r] = "bound" /\ pc'[r] = "idle"

Changed(old, new) == (old \ new) \cup (new \ old)

OwnIdentityStep ==
    \A r \in Requests :
        /\ Binds(r) => state'[r] = generate_user_id(hdr'[r][1])
        /\ (pc[r] = "bound" /\ pc'[r] = "bound") => state'[r] = state[r]
        /\ Runs(r) =>
              LET own == generate_user_id(hdr[r][1])
              IN  /\ last'.user = own
                  /\ \A t \in Changed(transactions, transactions') : t.user_id = own
                  /\ \A s \in Changed(settings, settings') : s.user_id = own

\* C10: the middleware binds to each request the identifier of its own
\* header, nothing changes it while the request is in flight, and the tool
\* body reads and writes the store under that identifier only, whatever
\* other requests do in between.
C10_RequestLocalIdentity == [][OwnIdentityStep]_vars

\* request 1 added a row as its own tenant while request 2, of another
\* tenant, was past the middleware
C10_Witness ==
    /\ lastReq.req = 1
    /\ last.tool = "add_transaction"
    /\ pc[2] = "bound"
    /\ state[2] # last.user
    /\ \E t \in transactions : t.user_id = last.user

====
